---- MODULE Spec2Model ----
(***************************************************************************)
(* The camera streaming core of buildme-car: BaseCamera (start_streaming,  *)
(* stop_streaming, get_frame, the _thread_run worker), CameraEvent (the    *)
(* per-thread latches), the Camera.frames frame source and the Flask       *)
(* handlers toggle_camera / camera_status that drive them.                 *)
(*                                                                         *)
(* Every Python statement that touches shared state is one step; a         *)
(* "with lock:" block is an acquire step followed by a body-and-release    *)
(* step, so the lock is visibly held in between.                           *)
(***************************************************************************)
EXTENDS Integers, FiniteSets

\* ---------------------------------------------------------------- bounds
\* Worker threads that may be created in one behaviour (Thread objects).
MaxWorkers == 2
\* Frames are named by their publication rank; ranks saturate here.
MaxFrames == 2

\* The client threads (Flask request threads, test threads).
Callers == {1, 2}
Workers == 1..MaxWorkers

\* The camera classes built on SingletonMeta (camera_pi.Camera, and the
\* MockCamera of the tests).
Classes == {"Camera", "MockCamera"}

\* Thread identities, as lock owners.
Free == <<"free", 0>>
C(t) == <<"caller", t>>
W(w) == <<"worker", w>>

VARIABLES
  \* BaseCamera fields
  streaming,   \* self._streaming
  thread,      \* self._thread: 0 is None, else the worker's id
  frame,       \* self._frame: 0 is None, else the publication rank of the frame
  lock,        \* owner of self._lock
  \* CameraEvent fields
  latch,       \* self.events: per ident "none" (no entry), "clear" or "set"
  evLock,      \* owner of CameraEvent.lock
  \* main.py globals
  enabled,     \* camera_streaming_enabled
  instance,    \* camera_instance is not None
  \* SingletonMeta
  metaLock,    \* owner of SingletonMeta._lock
  instances,   \* cls._instances: per class 0 (no entry) or the object stored
  inits,       \* per class, how many objects have been constructed so far
  cls,         \* the class a client is constructing
  inst,        \* the client's local variable instance
  ref,         \* per client and class, the object the last Class() returned
  \* worker threads
  wpc,         \* position of each worker thread
  wframe,      \* rank of the last frame the worker wrote to the slot (0: none)
  \* client threads
  pc,          \* position of each client thread
  meth,        \* the BaseCamera method the client is in / was last in
  outer,       \* what called it: "api" (direct), "toggle" or "picture"
  waitRes,     \* result of event.wait(timeout) inside CameraEvent.wait
  joinT,       \* the Thread object stop_streaming is joining
  result,      \* how the last method ended
  got,         \* the frame get_frame returned
  resp,        \* the "streaming" field of the last HTTP response
  wasStreaming,\* take_picture's local variable was_streaming
  \* history (read by the properties only)
  notified,    \* highest rank whose CameraEvent.set() has returned
  floor,       \* notified when the client's get_frame was invoked
  spawnedBy,   \* the worker the client's start_streaming spawned (0: none)
  ssIdem,      \* start_streaming found Running, a frame published and notified
  afterStop,   \* this start_streaming directly follows the client's own stop
  stSpawn,     \* a worker was spawned since this stop cleared the flag
  setSince,    \* a set() completed since the client invoked get_frame
  firstTime,   \* the client had no latch when it invoked get_frame
  mon,         \* per client observer of "a frame published after I began waiting"
  fresh,       \* per client: a set() reached the client's latch since the
               \* client's last event.wait() returned ("yes" / "no")
  prevGot,     \* per client: the frame its previous get_frame returned
               \* (-1: not recorded)
  failed,      \* the last worker that ended in its except clause (0: none,
               \* -1: not recorded)
  idleSets     \* per worker: the set() calls it completed while _streaming
               \* was False, since _streaming was last True (-1: not recorded)

camVars  == <<streaming, thread, frame, lock>>
evVars   == <<latch, evLock>>
webVars  == <<enabled, instance>>
metaVars == <<metaLock, instances, inits, cls, inst, ref>>
wVars    == <<wpc, wframe>>
locVars  == <<pc, meth, outer, waitRes, joinT, result, got, resp,
              wasStreaming>>
\* history of the call in progress, forgotten when the call ends
callVars == <<spawnedBy, ssIdem, afterStop, stSpawn, setSince, firstTime>>
histVars == <<notified, floor, callVars, mon, fresh, prevGot, failed,
              idleSets>>
vars == <<camVars, evVars, webVars, metaVars, wVars, locVars, histVars>>

\* A worker thread is alive from Thread.start() until _thread_run has no
\* statement left to run.
Alive(w) == wpc[w] \notin {"unborn", "created", "dead"}
AliveWorkers == {w \in Workers : Alive(w)}

\* The next Thread object start_streaming would create.
Unborn == {w \in Workers : wpc[w] = "unborn"}
NewWorker == CHOOSE w \in Unborn : \A v \in Unborn : w <= v

Min(a, b) == IF a < b THEN a ELSE b
Max(a, b) == IF a > b THEN a ELSE b

\* The state after Camera() has been constructed (BaseCamera.__init__,
\* CameraEvent.__init__, the module globals of main.py); no call made yet.
Constructed ==
  /\ streaming = FALSE
  /\ thread = 0
  /\ frame = 0
  /\ lock = Free
  /\ latch = [t \in Callers |-> "none"]
  /\ evLock = Free
  /\ enabled = FALSE
  /\ instance = FALSE
  /\ metaLock = Free
  /\ instances = [c \in Classes |-> 0]
  /\ inits = [c \in Classes |-> 0]
  /\ cls = [t \in Callers |-> "none"]
  /\ inst = [t \in Callers |-> 0]
  /\ ref = [t \in Callers |-> [c \in Classes |-> 0]]
  /\ wpc = [w \in Workers |-> "unborn"]
  /\ wframe = [w \in Workers |-> 0]
  /\ pc = [t \in Callers |-> "idle"]
  /\ meth = [t \in Callers |-> "none"]
  /\ outer = [t \in Callers |-> "api"]
  /\ waitRes = [t \in Callers |-> FALSE]
  /\ joinT = [t \in Callers |-> 0]
  /\ result = [t \in Callers |-> "none"]
  /\ got = [t \in Callers |-> 0]
  /\ resp = [t \in Callers |-> "none"]
  /\ wasStreaming = [t \in Callers |-> FALSE]
  /\ notified = 0
  /\ floor = [t \in Callers |-> 0]
  /\ spawnedBy = [t \in Callers |-> 0]
  /\ ssIdem = [t \in Callers |-> FALSE]
  /\ afterStop = [t \in Callers |-> FALSE]
  /\ stSpawn = [t \in Callers |-> FALSE]
  /\ setSince = [t \in Callers |-> FALSE]
  /\ firstTime = [t \in Callers |-> FALSE]

\* No observer is attached to the clients unless a specification attaches it.
Detached == [t \in Callers |-> "detached"]
Unrecorded == [t \in Callers |-> -1]
Uncounted == [w \in Workers |-> -1]

Init ==
  /\ Constructed
  /\ mon = Detached /\ fresh = Detached /\ prevGot = Unrecorded
  /\ failed = -1 /\ idleSets = Uncounted

\* get_frame returns to client t the frame that is in the slot.
Returned(t) == [prevGot EXCEPT ![t] = IF @ = -1 THEN @ ELSE frame]

\* Worker w completes a set() / start_streaming sets _streaming to True.
Notifies(w) ==
  [idleSets EXCEPT ![w] = IF @ = -1 \/ streaming THEN @ ELSE Min(@ + 1, 2)]
Resumed == [w \in Workers |-> IF idleSets[w] = -1 THEN -1 ELSE 0]

\* Worker w has ended in the except clause of _thread_run.
Failed(w) == IF failed = -1 THEN failed ELSE w

\* The client's event.wait() returns / a set() reaches its registered latch.
Waited(t) == [fresh EXCEPT ![t] = IF @ = "detached" THEN @ ELSE "no"]
Reached == [t \in Callers |->
             IF fresh[t] = "detached" \/ latch[t] = "none" THEN fresh[t]
             ELSE "yes"]

\* ------------------------------------------------------------ helpers
\* A BaseCamera method of client t ends with outcome r: control returns to
\* the caller of the method, a test thread ("api"), toggle_camera, whose
\* try block either falls through to its return or enters its except clause,
\* or Camera.take_picture, which goes on after stop_streaming, returns after
\* start_streaming and lets an exception of either pass.
Finish(t, r) ==
  /\ pc' = [pc EXCEPT ![t] =
             CASE outer[t] = "toggle" ->
                    (IF r = "ok" THEN "tg_ret" ELSE "tg_exc")
               [] outer[t] = "picture" ->
                    (IF r # "ok" THEN "tp_exc"
                     ELSE IF meth[t] = "stop" THEN "tp_capture" ELSE "tp_ret")
               [] OTHER -> "idle"]
  /\ result' = [result EXCEPT ![t] = r]
  /\ spawnedBy' = [spawnedBy EXCEPT ![t] = 0]
  /\ ssIdem' = [ssIdem EXCEPT ![t] = FALSE]
  /\ afterStop' = [afterStop EXCEPT ![t] = FALSE]
  /\ stSpawn' = [stSpawn EXCEPT ![t] = FALSE]
  /\ setSince' = [setSince EXCEPT ![t] = FALSE]
  /\ firstTime' = [firstTime EXCEPT ![t] = FALSE]

\* Client t enters CameraEvent.wait: its observer starts a new observation
\* unless one is still open.
Begin(t) == [mon EXCEPT ![t] = IF @ = "off" THEN "wait" ELSE @]

\* ------------------------------------------------- CameraEvent.wait
\* with self.lock:
EwLock(t) ==
  /\ pc[t] = "ew_lock"
  /\ evLock = Free
  /\ evLock' = C(t)
  /\ pc' = [pc EXCEPT ![t] = "ew_reg"]
  /\ UNCHANGED <<camVars, latch, webVars, wVars, meth, outer, waitRes, joinT,
                 result, got, resp, histVars, metaVars, wasStreaming>>

\* Faulty variant of EwReg: a new latch is created already set.
EwRegArmed(t) ==
  /\ pc[t] = "ew_reg"
  /\ latch' = [latch EXCEPT ![t] = IF @ = "none" THEN "set" ELSE @]
  /\ evLock' = Free
  /\ pc' = [pc EXCEPT ![t] = "ew_wait"]
  /\ UNCHANGED <<camVars, webVars, wVars, meth, outer, waitRes, joinT, result,
                 got, resp, histVars, metaVars, wasStreaming>>

\* if ident not in self.events: self.events[ident] = Event(); release
EwReg(t) ==
  /\ pc[t] = "ew_reg"
  /\ latch' = [latch EXCEPT ![t] = IF @ = "none" THEN "clear" ELSE @]
  /\ evLock' = Free
  /\ pc' = [pc EXCEPT ![t] = "ew_wait"]
  /\ UNCHANGED <<camVars, webVars, wVars, meth, outer, waitRes, joinT, result,
                 got, resp, histVars, metaVars, wasStreaming>>

\* event.wait(timeout) returns True: the latch is set.
EwWake(t) ==
  /\ pc[t] = "ew_wait"
  /\ latch[t] = "set"
  /\ waitRes' = [waitRes EXCEPT ![t] = TRUE]
  /\ pc' = [pc EXCEPT ![t] = "ew_clear"]
  /\ mon' = [mon EXCEPT ![t] = IF @ = "armed" THEN "off" ELSE @]
  /\ fresh' = Waited(t)
  /\ UNCHANGED <<camVars, evVars, webVars, wVars, meth, outer, joinT, result,
                 got, resp, notified, floor, spawnedBy, ssIdem, afterStop,
                 stSpawn, setSince, firstTime, metaVars, wasStreaming,
                 prevGot, failed, idleSets>>

\* event.wait(timeout=10.0) returns False: the latch stayed clear for the
\* whole timeout. Only start_streaming passes a timeout.
EwTimeout(t) ==
  /\ pc[t] = "ew_wait"
  /\ meth[t] = "start"
  /\ latch[t] # "set"
  /\ waitRes' = [waitRes EXCEPT ![t] = FALSE]
  /\ pc' = [pc EXCEPT ![t] = "ew_clear"]
  /\ fresh' = Waited(t)
  /\ UNCHANGED <<camVars, evVars, webVars, wVars, meth, outer, joinT, result,
                 got, resp, notified, floor, callVars, mon, metaVars,
                 wasStreaming, prevGot, failed, idleSets>>

\* Faulty variant of EwClear: one Event shared by all clients, so that a
\* client's clear() disarms everybody.
EwClearShared(t) ==
  /\ pc[t] = "ew_clear"
  /\ latch' = [u \in Callers |-> IF latch[u] = "none" THEN "none" ELSE "clear"]
  /\ IF meth[t] = "start"
     THEN Finish(t, IF waitRes[t] THEN "ok" ELSE "timeout")
     ELSE /\ pc' = [pc EXCEPT ![t] = "gf_lock"]
          /\ UNCHANGED <<result, callVars>>
  /\ UNCHANGED <<camVars, evLock, webVars, wVars, meth, outer, waitRes, joinT,
                 got, resp, notified, floor, mon, fresh, metaVars,
                 wasStreaming, prevGot, failed, idleSets>>

\* Faulty variant of EwClear: event.clear() is missing.
EwClearForgets(t) ==
  /\ pc[t] = "ew_clear"
  /\ latch' = latch
  /\ IF meth[t] = "start"
     THEN Finish(t, IF waitRes[t] THEN "ok" ELSE "timeout")
     ELSE /\ pc' = [pc EXCEPT ![t] = "gf_lock"]
          /\ UNCHANGED <<result, callVars>>
  /\ UNCHANGED <<camVars, evLock, webVars, wVars, meth, outer, waitRes, joinT,
                 got, resp, notified, floor, mon, fresh, metaVars,
                 wasStreaming, prevGot, failed, idleSets>>

\* event.clear(); return result. In start_streaming the result decides
\* between returning and raising TimeoutError; in get_frame it is dropped.
EwClear(t) ==
  /\ pc[t] = "ew_clear"
  /\ latch' = [latch EXCEPT ![t] = "clear"]
  /\ IF meth[t] = "start"
     THEN Finish(t, IF waitRes[t] THEN "ok" ELSE "timeout")
     ELSE /\ pc' = [pc EXCEPT ![t] = "gf_lock"]
          /\ UNCHANGED <<result, callVars>>
  /\ UNCHANGED <<camVars, evLock, webVars, wVars, meth, outer, waitRes, joinT,
                 got, resp, notified, floor, mon, fresh, metaVars,
                 wasStreaming, prevGot, failed, idleSets>>

\* ------------------------------------------ BaseCamera.start_streaming
\* The method is entered (directly, or from toggle_camera).
Enter(t, m, o) ==
  /\ meth' = [meth EXCEPT ![t] = m]
  /\ outer' = [outer EXCEPT ![t] = o]
  /\ result' = [result EXCEPT ![t] = "none"]
  /\ got' = [got EXCEPT ![t] = 0]
  /\ joinT' = [joinT EXCEPT ![t] = 0]
  /\ waitRes' = [waitRes EXCEPT ![t] = FALSE]
  /\ spawnedBy' = [spawnedBy EXCEPT ![t] = 0]
  /\ ssIdem' = [ssIdem EXCEPT ![t] = FALSE]
  /\ afterStop' = [afterStop EXCEPT ![t] =
                     m = "start" /\ meth[t] = "stop" /\ result[t] = "ok"]
  /\ stSpawn' = [stSpawn EXCEPT ![t] = FALSE]
  /\ floor' = [floor EXCEPT ![t] = IF m = "get" THEN notified ELSE 0]
  /\ firstTime' = [firstTime EXCEPT ![t] = m = "get" /\ latch[t] = "none"]
  /\ setSince' = [setSince EXCEPT ![t] = FALSE]
  /\ mon' = IF m = "get" THEN Begin(t) ELSE mon
  /\ pc' = [pc EXCEPT ![t] = CASE m = "start" -> "ss_crit"
                               [] m = "stop" -> "st_crit"
                               [] OTHER -> "ew_reg"]

\* start_streaming is entered;  with self._lock:
\* (a start that has to spawn needs a Thread object to create)
SsEnter(t, o) ==
  /\ lock = Free
  /\ streaming \/ Unborn # {}
  /\ lock' = C(t)
  /\ Enter(t, "start", o)
  /\ UNCHANGED <<streaming, thread, frame, evVars, webVars, wVars, resp,
                 notified, fresh, metaVars, wasStreaming, prevGot, failed,
                 idleSets>>

\* a client thread calls camera.start_streaming() directly
StartCall(t) ==
  /\ pc[t] = "idle"
  /\ SsEnter(t, "api")

\* Faulty variant of SsCrit: the _streaming test is missing, a thread is
\* created by every call (as long as the model has a worker left).
SsCritNoFlagTest(t) ==
  /\ pc[t] = "ss_crit"
  /\ IF ~streaming \/ Unborn # {}
     THEN /\ streaming' = TRUE
          /\ thread' = NewWorker
          /\ wpc' = [wpc EXCEPT ![NewWorker] = "created"]
          /\ pc' = [pc EXCEPT ![t] = "ss_spawn"]
          /\ spawnedBy' = [spawnedBy EXCEPT ![t] = NewWorker]
          /\ UNCHANGED <<lock, ssIdem, mon>>
     ELSE /\ lock' = Free
          /\ pc' = [pc EXCEPT ![t] = "ew_lock"]
          /\ ssIdem' = [ssIdem EXCEPT ![t] = frame # 0]
          /\ mon' = Begin(t)
          /\ UNCHANGED <<streaming, thread, wpc, spawnedBy>>
  /\ idleSets' = IF streaming' # streaming THEN Resumed ELSE idleSets
  /\ UNCHANGED <<frame, evVars, webVars, wframe, meth, outer, waitRes, joinT,
                 result, got, resp, notified, floor, afterStop, stSpawn,
                 setSince, firstTime, fresh, metaVars, wasStreaming, prevGot,
                 failed>>

\* if not self._streaming: self._streaming = True;
\*     self._thread = Thread(target=self._thread_run); daemon = True
\* (when already streaming the block is left at once)
SsCrit(t) ==
  /\ pc[t] = "ss_crit"
  /\ IF ~streaming
     THEN /\ streaming' = TRUE
          /\ thread' = NewWorker
          /\ wpc' = [wpc EXCEPT ![NewWorker] = "created"]
          /\ pc' = [pc EXCEPT ![t] = "ss_spawn"]
          /\ spawnedBy' = [spawnedBy EXCEPT ![t] = NewWorker]
          /\ UNCHANGED <<lock, ssIdem, mon>>
     ELSE /\ lock' = Free
          /\ pc' = [pc EXCEPT ![t] = "ew_lock"]
          /\ ssIdem' = [ssIdem EXCEPT ![t] =
                         /\ frame # 0
                         /\ \A w \in Workers :
                              wpc[w] \notin {"set_lock", "set"}]
          /\ mon' = Begin(t)
          /\ UNCHANGED <<streaming, thread, wpc, spawnedBy>>
  /\ idleSets' = IF streaming' # streaming THEN Resumed ELSE idleSets
  /\ UNCHANGED <<frame, evVars, webVars, wframe, meth, outer, waitRes, joinT,
                 result, got, resp, notified, floor, afterStop, stSpawn,
                 setSince, firstTime, fresh, metaVars, wasStreaming, prevGot,
                 failed>>

\* Faulty variant of SsSpawn: the first-frame wait is inside the with block,
\* self._lock is still held when the wait begins.
SsSpawnKeepsLock(t) ==
  /\ pc[t] = "ss_spawn"
  /\ wpc' = [wpc EXCEPT ![thread] = "capture"]
  /\ lock' = lock
  /\ pc' = [pc EXCEPT ![t] = "ew_lock"]
  /\ stSpawn' = [u \in Callers |-> TRUE]
  /\ mon' = Begin(t)
  /\ UNCHANGED <<streaming, thread, frame, evVars, webVars, wframe, meth,
                 outer, waitRes, joinT, result, got, resp, notified, floor,
                 spawnedBy, ssIdem, afterStop, setSince, firstTime, fresh,
                 metaVars, wasStreaming, prevGot, failed, idleSets>>

\* self._thread.start(); release
SsSpawn(t) ==
  /\ pc[t] = "ss_spawn"
  /\ wpc' = [wpc EXCEPT ![thread] = "capture"]
  /\ lock' = Free
  /\ pc' = [pc EXCEPT ![t] = "ew_lock"]
  /\ stSpawn' = [u \in Callers |-> TRUE]
  /\ mon' = Begin(t)
  /\ UNCHANGED <<streaming, thread, frame, evVars, webVars, wframe, meth,
                 outer, waitRes, joinT, result, got, resp, notified, floor,
                 spawnedBy, ssIdem, afterStop, setSince, firstTime, fresh,
                 metaVars, wasStreaming, prevGot, failed, idleSets>>

\* ------------------------------------------- BaseCamera.stop_streaming
\* stop_streaming is entered;  with self._lock:
StEnter(t, o) ==
  /\ lock = Free
  /\ lock' = C(t)
  /\ Enter(t, "stop", o)
  /\ UNCHANGED <<streaming, thread, frame, evVars, webVars, wVars, resp,
                 notified, fresh, metaVars, wasStreaming, prevGot, failed,
                 idleSets>>

\* a client thread calls camera.stop_streaming() directly
StopCall(t) ==
  /\ pc[t] = "idle"
  /\ StEnter(t, "api")

\* self._streaming = False; release
StCrit(t) ==
  /\ pc[t] = "st_crit"
  /\ streaming' = FALSE
  /\ lock' = Free
  /\ pc' = [pc EXCEPT ![t] = "st_check"]
  /\ stSpawn' = [stSpawn EXCEPT ![t] = FALSE]
  /\ UNCHANGED <<thread, frame, evVars, webVars, wVars, meth, outer, waitRes,
                 joinT, result, got, resp, notified, floor, spawnedBy, ssIdem,
                 afterStop, setSince, firstTime, mon, fresh, metaVars,
                 wasStreaming, prevGot, failed, idleSets>>

\* if self._thread is not None:   (read without the lock)
StCheck(t) ==
  /\ pc[t] = "st_check"
  /\ IF thread # 0
     THEN /\ pc' = [pc EXCEPT ![t] = "st_join"]
          /\ UNCHANGED <<result, callVars>>
     ELSE Finish(t, "ok")
  /\ UNCHANGED <<camVars, evVars, webVars, wVars, meth, outer, waitRes, joinT,
                 got, resp, notified, floor, mon, fresh, metaVars,
                 wasStreaming, prevGot, failed, idleSets>>

\* self._thread.join(): self._thread is read again, without the lock. None
\* has no join (AttributeError); a Thread that was created but not yet
\* started refuses to be joined (RuntimeError).
StJoin(t) ==
  /\ pc[t] = "st_join"
  /\ IF thread = 0 THEN Finish(t, "attribute_error") /\ UNCHANGED joinT
     ELSE IF wpc[thread] = "created"
          THEN Finish(t, "runtime_error") /\ UNCHANGED joinT
          ELSE /\ joinT' = [joinT EXCEPT ![t] = thread]
               /\ pc' = [pc EXCEPT ![t] = "st_wait"]
               /\ UNCHANGED <<result, callVars>>
  /\ UNCHANGED <<camVars, evVars, webVars, wVars, meth, outer, waitRes, got,
                 resp, notified, floor, mon, fresh, metaVars, wasStreaming,
                 prevGot, failed, idleSets>>

\* Faulty variant of StWait: self._thread is not set to None.
StWaitKeepsHandle(t) ==
  /\ pc[t] = "st_wait"
  /\ wpc[joinT[t]] = "dead"
  /\ thread' = thread
  /\ Finish(t, "ok")
  /\ UNCHANGED <<streaming, frame, lock, evVars, webVars, wVars, meth, outer,
                 waitRes, joinT, got, resp, notified, floor, mon, fresh,
                 metaVars, wasStreaming, prevGot, failed, idleSets>>

\* join() returns once the joined thread has ended; self._thread = None
StWait(t) ==
  /\ pc[t] = "st_wait"
  /\ wpc[joinT[t]] = "dead"
  /\ thread' = 0
  /\ Finish(t, "ok")
  /\ UNCHANGED <<streaming, frame, lock, evVars, webVars, wVars, meth, outer,
                 waitRes, joinT, got, resp, notified, floor, mon, fresh,
                 metaVars, wasStreaming, prevGot, failed, idleSets>>

\* ------------------------------------------------ BaseCamera.get_frame
\* get_frame is entered;  self._event.wait():  with self.lock:
GetCall(t) ==
  /\ pc[t] = "idle"
  /\ evLock = Free
  /\ evLock' = C(t)
  /\ Enter(t, "get", "api")
  /\ UNCHANGED <<camVars, latch, webVars, wVars, resp, notified, fresh,
                 metaVars, wasStreaming, prevGot, failed, idleSets>>

\* with self._lock:
GfLock(t) ==
  /\ pc[t] = "gf_lock"
  /\ lock = Free
  /\ lock' = C(t)
  /\ pc' = [pc EXCEPT ![t] = "gf_read"]
  /\ UNCHANGED <<streaming, thread, frame, evVars, webVars, wVars, meth,
                 outer, waitRes, joinT, result, got, resp, histVars, metaVars,
                 wasStreaming>>

\* Faulty variant of GfRead: self._lock is not released.
GfReadKeepsLock(t) ==
  /\ pc[t] = "gf_read"
  /\ got' = [got EXCEPT ![t] = frame]
  /\ prevGot' = Returned(t)
  /\ lock' = lock
  /\ Finish(t, "ok")
  /\ UNCHANGED <<streaming, thread, frame, evVars, webVars, wVars, meth,
                 outer, waitRes, joinT, resp, notified, floor, mon, fresh,
                 metaVars, wasStreaming, failed, idleSets>>

\* return self._frame; release
GfRead(t) ==
  /\ pc[t] = "gf_read"
  /\ got' = [got EXCEPT ![t] = frame]
  /\ prevGot' = Returned(t)
  /\ lock' = Free
  /\ Finish(t, "ok")
  /\ UNCHANGED <<streaming, thread, frame, evVars, webVars, wVars, meth,
                 outer, waitRes, joinT, resp, notified, floor, mon, fresh,
                 metaVars, wasStreaming, failed, idleSets>>

\* ------------------------------------------------- Camera.frames (source)
\* for _ in camera.capture_continuous(...): the next image is captured;
\* with self._lock: if not self._streaming: break  -- else the frame is
\* yielded. The generator only reads under the lock, so its block is one
\* step, taken when the lock is free.
WCapture(w) ==
  /\ wpc[w] = "capture"
  /\ lock = Free
  /\ wpc' = [wpc EXCEPT ![w] = IF streaming THEN "lock" ELSE "fin"]
  /\ UNCHANGED <<camVars, evVars, webVars, wframe, locVars, histVars,
                 metaVars>>

\* the frame source raises (the device fails, or cannot be opened);
\* except Exception: print, traceback.print_exc(); with self._lock:
WSourceRaise(w) ==
  /\ wpc[w] = "capture"
  /\ lock = Free
  /\ lock' = W(w)
  /\ wpc' = [wpc EXCEPT ![w] = "exc_crit"]
  /\ UNCHANGED <<streaming, thread, frame, evVars, webVars, wframe, locVars,
                 histVars, metaVars>>

\* a finite frame source is exhausted: the for loop of _thread_run ends
WSourceEnd(w) ==
  /\ wpc[w] = "capture"
  /\ wpc' = [wpc EXCEPT ![w] = "fin"]
  /\ UNCHANGED <<camVars, evVars, webVars, wframe, locVars, histVars,
                 metaVars>>

\* ------------------------------------------------ BaseCamera._thread_run
\* with self._lock:
WLock(w) ==
  /\ wpc[w] = "lock"
  /\ lock = Free
  /\ lock' = W(w)
  /\ wpc' = [wpc EXCEPT ![w] = "crit"]
  /\ UNCHANGED <<streaming, thread, frame, evVars, webVars, wframe, locVars,
                 histVars, metaVars>>

\* Faulty variant of WCrit: the frame is not stored in the slot.
WCritNoStore(w) ==
  /\ wpc[w] = "crit"
  /\ lock' = Free
  /\ IF streaming
     THEN /\ wframe' = [wframe EXCEPT ![w] = Min(frame + 1, MaxFrames)]
          /\ wpc' = [wpc EXCEPT ![w] = "set_lock"]
          /\ mon' = [t \in Callers |-> IF mon[t] = "wait" THEN "pub" ELSE mon[t]]
          /\ UNCHANGED frame
     ELSE /\ wpc' = [wpc EXCEPT ![w] = "fin"]
          /\ UNCHANGED <<frame, wframe, mon>>
  /\ UNCHANGED <<streaming, thread, evVars, webVars, locVars, notified, floor,
                 spawnedBy, ssIdem, afterStop, stSpawn, setSince, firstTime,
                 fresh, metaVars, prevGot, failed, idleSets>>

\* Faulty variant of WCrit: the slot is written only while it is empty, so
\* that it keeps the first frame.
WCritKeepFirst(w) ==
  /\ wpc[w] = "crit"
  /\ lock' = Free
  /\ IF streaming
     THEN /\ frame' = IF frame = 0 THEN 1 ELSE frame
          /\ wframe' = [wframe EXCEPT ![w] = Min(Max(frame, wframe[w]) + 1,
                                                 MaxFrames)]
          /\ wpc' = [wpc EXCEPT ![w] = "set_lock"]
          /\ mon' = [t \in Callers |-> IF mon[t] = "wait" THEN "pub" ELSE mon[t]]
     ELSE /\ wpc' = [wpc EXCEPT ![w] = "fin"]
          /\ UNCHANGED <<frame, wframe, mon>>
  /\ UNCHANGED <<streaming, thread, evVars, webVars, locVars, notified, floor,
                 spawnedBy, ssIdem, afterStop, stSpawn, setSince, firstTime,
                 fresh, metaVars, prevGot, failed, idleSets>>

\* Faulty variant of WCrit: the _streaming test is missing, the frame is
\* stored whatever the flag says.
WCritNoFlagTest(w) ==
  /\ wpc[w] = "crit"
  /\ lock' = Free
  /\ frame' = Min(frame + 1, MaxFrames)
  /\ wframe' = [wframe EXCEPT ![w] = Min(frame + 1, MaxFrames)]
  /\ wpc' = [wpc EXCEPT ![w] = "set_lock"]
  /\ mon' = [t \in Callers |-> IF mon[t] = "wait" THEN "pub" ELSE mon[t]]
  /\ UNCHANGED <<streaming, thread, evVars, webVars, locVars, notified, floor,
                 spawnedBy, ssIdem, afterStop, stSpawn, setSince, firstTime,
                 fresh, metaVars, prevGot, failed, idleSets>>

\* if not self._streaming: break
\* self._frame = frame; release
WCrit(w) ==
  /\ wpc[w] = "crit"
  /\ lock' = Free
  /\ IF streaming
     THEN /\ frame' = Min(frame + 1, MaxFrames)
          /\ wframe' = [wframe EXCEPT ![w] = Min(frame + 1, MaxFrames)]
          /\ wpc' = [wpc EXCEPT ![w] = "set_lock"]
          /\ mon' = [t \in Callers |-> IF mon[t] = "wait" THEN "pub" ELSE mon[t]]
     ELSE /\ wpc' = [wpc EXCEPT ![w] = "fin"]
          /\ UNCHANGED <<frame, wframe, mon>>
  /\ UNCHANGED <<streaming, thread, evVars, webVars, locVars, notified, floor,
                 spawnedBy, ssIdem, afterStop, stSpawn, setSince, firstTime,
                 fresh, metaVars, prevGot, failed, idleSets>>

\* self._event.set():  with self.lock:
WSetLock(w) ==
  /\ wpc[w] = "set_lock"
  /\ evLock = Free
  /\ evLock' = W(w)
  /\ wpc' = [wpc EXCEPT ![w] = "set"]
  /\ UNCHANGED <<camVars, latch, webVars, wframe, locVars, histVars, metaVars>>

\* Faulty variant of WSet: the loop over the latches stops after the first.
WSetFirstOnly(w) ==
  /\ wpc[w] = "set"
  /\ latch' = [t \in Callers |->
                 IF latch[t] # "none" /\
                    \A u \in Callers : latch[u] # "none" => t <= u
                 THEN "set" ELSE latch[t]]
  /\ evLock' = Free
  /\ wpc' = [wpc EXCEPT ![w] = "capture"]
  /\ notified' = Max(notified, wframe[w])
  /\ setSince' = [t \in Callers |->
                    setSince[t] \/ (firstTime[t] /\ result[t] = "none")]
  /\ mon' = [t \in Callers |->
               IF mon[t] = "pub" /\ latch[t] # "none" THEN "armed" ELSE mon[t]]
  /\ fresh' = Reached
  /\ idleSets' = Notifies(w)
  /\ UNCHANGED <<camVars, webVars, wframe, locVars, floor, spawnedBy, ssIdem,
                 afterStop, stSpawn, firstTime, metaVars, prevGot, failed>>

\* for event in self.events.values(): event.set(); release; time.sleep(0)
WSet(w) ==
  /\ wpc[w] = "set"
  /\ latch' = [t \in Callers |-> IF latch[t] = "none" THEN "none" ELSE "set"]
  /\ evLock' = Free
  /\ wpc' = [wpc EXCEPT ![w] = "capture"]
  /\ notified' = Max(notified, wframe[w])
  /\ setSince' = [t \in Callers |->
                    setSince[t] \/ (firstTime[t] /\ result[t] = "none")]
  /\ mon' = [t \in Callers |->
               IF mon[t] = "pub" /\ latch[t] # "none" THEN "armed" ELSE mon[t]]
  /\ fresh' = Reached
  /\ idleSets' = Notifies(w)
  /\ UNCHANGED <<camVars, webVars, wframe, locVars, floor, spawnedBy, ssIdem,
                 afterStop, stSpawn, firstTime, metaVars, prevGot, failed>>

\* Faulty variant of WFin: a worker that ends normally clears the flag.
WFinClearsFlag(w) ==
  /\ wpc[w] = "fin"
  /\ wpc' = [wpc EXCEPT ![w] = "dead"]
  /\ streaming' = FALSE
  /\ UNCHANGED <<thread, frame, lock, evVars, webVars, wframe, locVars,
                 histVars, metaVars>>

\* print("Camera thread finished normally"); the thread ends
WFin(w) ==
  /\ wpc[w] = "fin"
  /\ wpc' = [wpc EXCEPT ![w] = "dead"]
  /\ UNCHANGED <<camVars, evVars, webVars, wframe, locVars, histVars,
                 metaVars>>

\* Faulty variant of WExc: the flag is not cleared after a failure.
WExcKeepsFlag(w) ==
  /\ wpc[w] = "exc_crit"
  /\ streaming' = streaming
  /\ lock' = Free
  /\ wpc' = [wpc EXCEPT ![w] = "dead"]
  /\ failed' = Failed(w)
  /\ UNCHANGED <<thread, frame, evVars, webVars, wframe, locVars, notified,
                 floor, callVars, mon, fresh, prevGot, metaVars, idleSets>>

\* self._streaming = False; release; the thread ends
WExc(w) ==
  /\ wpc[w] = "exc_crit"
  /\ streaming' = FALSE
  /\ lock' = Free
  /\ wpc' = [wpc EXCEPT ![w] = "dead"]
  /\ failed' = Failed(w)
  /\ UNCHANGED <<thread, frame, evVars, webVars, wframe, locVars, notified,
                 floor, callVars, mon, fresh, prevGot, metaVars, idleSets>>

\* ------------------------------------------- main.py: the Flask handlers
\* toggle_camera: camera_streaming_enabled = not camera_streaming_enabled
ToggleCall(t) ==
  /\ pc[t] = "idle"
  /\ enabled' = ~enabled
  /\ pc' = [pc EXCEPT ![t] = "tg_branch"]
  /\ resp' = [resp EXCEPT ![t] = "none"]
  /\ UNCHANGED <<camVars, evVars, instance, wVars, meth, outer, waitRes, joinT,
                 result, got, histVars, metaVars, wasStreaming>>

\* if camera_streaming_enabled: (if camera_instance is None:
\*     camera_instance = Camera()) ... else: if camera_instance is not None:
TgBranch(t) ==
  /\ pc[t] = "tg_branch"
  /\ instance' = (instance \/ enabled)
  /\ pc' = [pc EXCEPT ![t] = IF enabled THEN "tg_start"
                             ELSE IF instance THEN "tg_stop" ELSE "tg_ret"]
  /\ UNCHANGED <<camVars, evVars, enabled, wVars, meth, outer, waitRes, joinT,
                 result, got, resp, histVars, metaVars, wasStreaming>>

\* camera_instance.start_streaming()
TgStart(t) ==
  /\ pc[t] = "tg_start"
  /\ SsEnter(t, "toggle")

\* camera_instance.stop_streaming()
TgStop(t) ==
  /\ pc[t] = "tg_stop"
  /\ StEnter(t, "toggle")

\* return jsonify({"streaming": camera_streaming_enabled})
TgRet(t) ==
  /\ pc[t] = "tg_ret"
  /\ resp' = [resp EXCEPT ![t] = IF enabled THEN "on" ELSE "off"]
  /\ pc' = [pc EXCEPT ![t] = "idle"]
  /\ UNCHANGED <<camVars, evVars, webVars, wVars, meth, outer, waitRes, joinT,
                 result, got, histVars, metaVars, wasStreaming>>

\* except Exception: camera_streaming_enabled = False;
\* return jsonify({"streaming": False, "error": str(e)}), 500
TgExc(t) ==
  /\ pc[t] = "tg_exc"
  /\ enabled' = FALSE
  /\ resp' = [resp EXCEPT ![t] = "error"]
  /\ pc' = [pc EXCEPT ![t] = "idle"]
  /\ UNCHANGED <<camVars, evVars, instance, wVars, meth, outer, waitRes, joinT,
                 result, got, histVars, metaVars, wasStreaming>>

\* camera_status: return jsonify({"streaming": camera_streaming_enabled, ...})
StatusCall(t) ==
  /\ pc[t] = "idle"
  /\ resp' = [resp EXCEPT ![t] = IF enabled THEN "on" ELSE "off"]
  /\ UNCHANGED <<camVars, evVars, webVars, wVars, pc, meth, outer, waitRes,
                 joinT, result, got, histVars, metaVars, wasStreaming>>

\* --------------------------------------------------- Camera.take_picture
\* was_streaming = self._streaming (read without the lock); if was_streaming:
\* (a take_picture that will restart the stream needs a Thread to create)
PictureCall(t) ==
  /\ pc[t] = "idle"
  /\ streaming => Unborn # {}
  /\ wasStreaming' = [wasStreaming EXCEPT ![t] = streaming]
  /\ pc' = [pc EXCEPT ![t] = IF streaming THEN "tp_stop" ELSE "tp_capture"]
  /\ UNCHANGED <<camVars, evVars, webVars, metaVars, wVars, meth, outer,
                 waitRes, joinT, result, got, resp, histVars>>

\* self.stop_streaming()
TpStop(t) ==
  /\ pc[t] = "tp_stop"
  /\ StEnter(t, "picture")

\* Faulty variant of TpCapture: the stream is not started again.
TpCaptureNoResume(t) ==
  /\ pc[t] = "tp_capture"
  /\ pc' = [pc EXCEPT ![t] = "tp_ret"]
  /\ UNCHANGED <<camVars, evVars, webVars, metaVars, wVars, meth, outer,
                 waitRes, joinT, result, got, resp, wasStreaming, histVars>>

\* with picamera.PiCamera() as camera: ... camera.capture(filename);
\* if was_streaming:
TpCapture(t) ==
  /\ pc[t] = "tp_capture"
  /\ pc' = [pc EXCEPT ![t] = IF wasStreaming[t] THEN "tp_start" ELSE "tp_ret"]
  /\ UNCHANGED <<camVars, evVars, webVars, metaVars, wVars, meth, outer,
                 waitRes, joinT, result, got, resp, wasStreaming, histVars>>

\* PiCamera() or camera.capture(filename) raises: the exception leaves
\* take_picture, which has no try block; the lines after it do not run.
TpCaptureRaise(t) ==
  /\ pc[t] = "tp_capture"
  /\ pc' = [pc EXCEPT ![t] = "tp_exc"]
  /\ result' = [result EXCEPT ![t] = "capture_error"]
  /\ UNCHANGED <<camVars, evVars, webVars, metaVars, wVars, meth, outer,
                 waitRes, joinT, got, resp, wasStreaming, histVars>>

\* self.start_streaming()
TpStart(t) ==
  /\ pc[t] = "tp_start"
  /\ SsEnter(t, "picture")

\* take_picture returns
TpRet(t) ==
  /\ pc[t] = "tp_ret"
  /\ pc' = [pc EXCEPT ![t] = "idle"]
  /\ UNCHANGED <<camVars, evVars, webVars, metaVars, wVars, meth, outer,
                 waitRes, joinT, result, got, resp, wasStreaming, histVars>>

\* an exception of stop_streaming, of the still capture or of
\* start_streaming leaves take_picture
TpExc(t) ==
  /\ pc[t] = "tp_exc"
  /\ pc' = [pc EXCEPT ![t] = "idle"]
  /\ UNCHANGED <<camVars, evVars, webVars, metaVars, wVars, meth, outer,
                 waitRes, joinT, result, got, resp, wasStreaming, histVars>>

\* ------------------------------------------------ SingletonMeta.__call__
\* Faulty variant of NewCall: the body runs without SingletonMeta._lock.
NewCallNoLock(t, c) ==
  /\ pc[t] = "idle"
  /\ cls' = [cls EXCEPT ![t] = c]
  /\ pc' = [pc EXCEPT ![t] = "new_check"]
  /\ UNCHANGED <<camVars, evVars, webVars, metaLock, instances, inits, inst,
                 ref, wVars, meth, outer, waitRes, joinT, result, got, resp,
                 histVars, wasStreaming>>

\* a client thread calls c();  with cls._lock:
NewCall(t, c) ==
  /\ pc[t] = "idle"
  /\ metaLock = Free
  /\ metaLock' = C(t)
  /\ cls' = [cls EXCEPT ![t] = c]
  /\ pc' = [pc EXCEPT ![t] = "new_check"]
  /\ UNCHANGED <<camVars, evVars, webVars, instances, inits, inst, ref, wVars,
                 meth, outer, waitRes, joinT, result, got, resp, histVars,
                 wasStreaming>>

\* if cls not in cls._instances:   (else the block is left: release)
NewCheck(t) ==
  /\ pc[t] = "new_check"
  /\ IF instances[cls[t]] = 0
     THEN pc' = [pc EXCEPT ![t] = "new_init"] /\ UNCHANGED metaLock
     ELSE pc' = [pc EXCEPT ![t] = "new_ret"] /\ metaLock' = Free
  /\ UNCHANGED <<camVars, evVars, webVars, instances, inits, cls, inst, ref,
                 wVars, meth, outer, waitRes, joinT, result, got, resp,
                 histVars, wasStreaming>>

\* instance = super().__call__(*args, **kwargs): a new object is made and
\* its __init__ runs
NewInit(t) ==
  /\ pc[t] = "new_init"
  /\ inits' = [inits EXCEPT ![cls[t]] = @ + 1]
  /\ inst' = [inst EXCEPT ![t] = inits[cls[t]] + 1]
  /\ pc' = [pc EXCEPT ![t] = "new_store"]
  /\ UNCHANGED <<camVars, evVars, webVars, metaLock, instances, cls, ref,
                 wVars, meth, outer, waitRes, joinT, result, got, resp,
                 histVars, wasStreaming>>

\* cls._instances[cls] = instance; release
NewStore(t) ==
  /\ pc[t] = "new_store"
  /\ instances' = [instances EXCEPT ![cls[t]] = inst[t]]
  /\ metaLock' = Free
  /\ pc' = [pc EXCEPT ![t] = "new_ret"]
  /\ UNCHANGED <<camVars, evVars, webVars, inits, cls, inst, ref, wVars, meth,
                 outer, waitRes, joinT, result, got, resp, histVars,
                 wasStreaming>>

\* return cls._instances[cls]
NewRet(t) ==
  /\ pc[t] = "new_ret"
  /\ ref' = [ref EXCEPT ![t][cls[t]] = instances[cls[t]]]
  /\ pc' = [pc EXCEPT ![t] = "idle"]
  /\ UNCHANGED <<camVars, evVars, webVars, metaLock, instances, inits, cls,
                 inst, wVars, meth, outer, waitRes, joinT, result, got, resp,
                 histVars, wasStreaming>>

\* ------------------------------------------------------- specifications
\* The bodies of the methods, grouped by method.
WaitSteps(t) == EwLock(t) \/ EwReg(t) \/ EwWake(t) \/ EwClear(t)
StartSteps(t) == SsCrit(t) \/ SsSpawn(t) \/ EwTimeout(t)
StopSteps(t) == StCrit(t) \/ StCheck(t) \/ StJoin(t) \/ StWait(t)
GetSteps(t) == GfLock(t) \/ GfRead(t)

\* The worker with a frame source that keeps yielding ...
WorkerLoop(w) == WCapture(w) \/ WLock(w) \/ WCrit(w) \/ WSetLock(w) \/ WSet(w)
\* ... and with one that may also fail or run out, and a worker that stops.
WorkerStep(w) ==
  \/ WorkerLoop(w) \/ WFin(w)
  \/ WSourceRaise(w) \/ WExc(w) \/ WSourceEnd(w)

\* Spec: the lifecycle. Both clients call start_streaming and stop_streaming
\* at any time, as two request threads of the threaded Flask server do.
Next ==
  \/ \E t \in Callers : StartCall(t) \/ StopCall(t)
  \/ \E t \in Callers : StartSteps(t) \/ WaitSteps(t) \/ StopSteps(t)
  \/ \E w \in Workers : WorkerStep(w)

Spec == Init /\ [][Next]_vars

\* SpecStart: both clients only ever call start_streaming.
NextStart ==
  \/ \E t \in Callers : StartCall(t)
  \/ \E t \in Callers : StartSteps(t) \/ WaitSteps(t)
  \/ \E w \in Workers : WorkerStep(w)

SpecStart == Init /\ [][NextStart]_vars

\* SpecView: client 1 controls the camera and reads frames (as the tests
\* do), client 2 is a viewer that only reads frames (gen() in main.py).
Controller == CHOOSE t \in Callers : \A u \in Callers : t <= u
NextView ==
  \/ StartCall(Controller) \/ StopCall(Controller)
  \/ StartSteps(Controller) \/ StopSteps(Controller)
  \/ \E t \in Callers : GetCall(t) \/ WaitSteps(t) \/ GetSteps(t)
  \/ \E w \in Workers : WorkerStep(w)

SpecView == Init /\ [][NextView]_vars

\* SpecAll: both clients make every call.
NextAll ==
  \/ \E t \in Callers : StartCall(t) \/ StopCall(t) \/ GetCall(t)
  \/ \E t \in Callers : StartSteps(t) \/ WaitSteps(t) \/ StopSteps(t)
                          \/ GetSteps(t)
  \/ \E w \in Workers : WorkerStep(w)

SpecAll == Init /\ [][NextAll]_vars

\* SpecWeb: client 1 posts to /toggle_camera, client 2 polls /camera_status.
NextWeb ==
  \/ ToggleCall(Controller) \/ TgBranch(Controller) \/ TgStart(Controller)
  \/ TgStop(Controller) \/ TgRet(Controller) \/ TgExc(Controller)
  \/ StartSteps(Controller) \/ WaitSteps(Controller) \/ StopSteps(Controller)
  \/ \E t \in Callers \ {Controller} : StatusCall(t)
  \/ \E w \in Workers : WorkerStep(w)

SpecWeb == Init /\ [][NextWeb]_vars

\* SpecStatus: SpecWeb with the failure of a worker recorded.
InitStatus ==
  /\ Constructed
  /\ mon = Detached /\ fresh = Detached /\ prevGot = Unrecorded
  /\ failed = 0 /\ idleSets = Uncounted

SpecStatus == InitStatus /\ [][NextWeb]_vars

\* SpecIdle: SpecView with the set() calls of the workers counted.
InitIdle ==
  /\ Constructed
  /\ mon = Detached /\ fresh = Detached /\ prevGot = Unrecorded
  /\ failed = -1 /\ idleSets = [w \in Workers |-> 0]

SpecIdle == InitIdle /\ [][NextView]_vars

\* SpecLive: the camera is started once and stays healthy; both clients
\* read frames in a loop, as gen() does. Every thread keeps being scheduled
\* (time.sleep(0) in the worker loop yields the interpreter), and a thread
\* waiting for a lock that is released again and again gets it eventually.
InitLive ==
  /\ Constructed
  /\ mon = [t \in Callers |-> "off"] /\ fresh = Detached /\ prevGot = Unrecorded
  /\ failed = -1 /\ idleSets = Uncounted

FirstStart(t) == ~streaming /\ thread = 0 /\ StartCall(t)
LiveClient(t) ==
  \/ GetCall(t) \/ WaitSteps(t) \/ GetSteps(t)
  \/ (t = Controller /\ (FirstStart(t) \/ StartSteps(t)))
NextLive ==
  \/ \E t \in Callers : LiveClient(t)
  \/ \E w \in Workers : WorkerLoop(w)

\* Steps that take a lock: enabled only while the lock is free.
ClientLocks(t) == GetCall(t) \/ EwLock(t) \/ GfLock(t)
WorkerLocks(w) == WCapture(w) \/ WLock(w) \/ WSetLock(w)

SpecLive ==
  /\ InitLive /\ [][NextLive]_vars
  /\ \A t \in Callers : WF_vars(LiveClient(t)) /\ SF_vars(ClientLocks(t))
  /\ \A w \in Workers : WF_vars(WorkerLoop(w)) /\ SF_vars(WorkerLocks(w))

\* SpecReaders: SpecLive with the frame of every client's previous read
\* recorded.
InitReaders ==
  /\ Constructed
  /\ mon = Detached /\ fresh = Detached /\ prevGot = [t \in Callers |-> 0]
  /\ failed = -1 /\ idleSets = Uncounted

SpecReaders ==
  /\ InitReaders /\ [][NextLive]_vars
  /\ \A t \in Callers : WF_vars(LiveClient(t)) /\ SF_vars(ClientLocks(t))
  /\ \A w \in Workers : WF_vars(WorkerLoop(w)) /\ SF_vars(WorkerLocks(w))

\* SpecEvent: SpecView with every client's notifications recorded.
InitEvent ==
  /\ Constructed
  /\ mon = Detached /\ fresh = [t \in Callers |-> "no"] /\ prevGot = Unrecorded
  /\ failed = -1 /\ idleSets = Uncounted

SpecEvent == InitEvent /\ [][NextView]_vars

\* SpecNew: both clients construct cameras of both classes, again and again.
NewSteps(t) == NewCheck(t) \/ NewInit(t) \/ NewStore(t) \/ NewRet(t)
NextNew ==
  \/ \E t \in Callers : \E c \in Classes : NewCall(t, c)
  \/ \E t \in Callers : NewSteps(t)

SpecNew == Init /\ [][NextNew]_vars

\* SpecPicture: client 1 starts and stops the camera and takes pictures,
\* client 2 reads frames; the frame source is healthy, so that a worker ends
\* only when it is told to, and the still capture succeeds.
PictureSteps(t) ==
  TpStop(t) \/ TpCapture(t) \/ TpStart(t) \/ TpRet(t) \/ TpExc(t)
NextPicture ==
  \/ StartCall(Controller) \/ StopCall(Controller) \/ PictureCall(Controller)
  \/ StartSteps(Controller) \/ StopSteps(Controller)
  \/ PictureSteps(Controller)
  \/ \E t \in Callers \ {Controller} : GetCall(t) \/ GetSteps(t)
  \/ \E t \in Callers : WaitSteps(t)
  \/ \E w \in Workers : WorkerLoop(w) \/ WFin(w)

SpecPicture == Init /\ [][NextPicture]_vars

\* SpecCapture: SpecPicture with a still capture that may raise.
NextCapture == NextPicture \/ TpCaptureRaise(Controller)

SpecCapture == Init /\ [][NextCapture]_vars

\* ================================================================ claims
Other(t) == Callers \ {t}
InWait(t) == pc[t] \in {"ew_lock", "ew_reg", "ew_wait", "ew_clear"}
PastWait(t) == pc[t] \in {"ew_clear", "gf_lock", "gf_read"}

\* C1 (SpecStart): however many start_streaming() calls interleave, with no
\* stop_streaming(), at most one worker thread is alive at any time, and a
\* start_streaming() that finds the camera streaming leaves _thread as it
\* was and creates no thread.
C1_OneWorkerPerStart ==
  /\ [](Cardinality(AliveWorkers) <= 1)
  /\ [][\A t \in Callers :
          (pc[t] = "ss_crit" /\ pc'[t] # "ss_crit" /\ streaming)
            => (thread' = thread /\ wpc' = wpc)]_vars

\* Two start_streaming() calls overlap: one spawned the worker, which is
\* alive, the other has passed its critical section without spawning.
C1_Witness ==
  \E t \in Callers : \E u \in Other(t) :
    /\ meth[t] = "start" /\ InWait(t) /\ spawnedBy[t] = 0
    /\ meth[u] = "start" /\ InWait(u) /\ spawnedBy[u] # 0
    /\ Alive(spawnedBy[u]) /\ thread = spawnedBy[u]

\* C2 (Spec): when stop_streaming() returns, and no start_streaming() has
\* spawned a worker since this stop cleared the flag, no worker thread of
\* the camera is alive.
C2_FullStopBeforeReturn ==
  [][\A t \in Callers :
       (/\ meth[t] = "stop" /\ pc[t] \in {"st_check", "st_wait"}
        /\ pc'[t] = "idle" /\ result'[t] = "ok"
        /\ ~stSpawn[t])
         => \A w \in Workers : wpc'[w] \in {"unborn", "created", "dead"}]_vars

\* C3 (Spec): a start_streaming() that finds the camera streaming with a
\* frame already published and notified does not end by the first-frame
\* timeout.
C3_IdempotentStartReturns ==
  \A t \in Callers :
    (meth[t] = "start" /\ pc[t] = "ew_clear" /\ ssIdem[t]) => waitRes[t]

\* C4 (SpecWeb): when start_streaming() raises TimeoutError because the
\* worker it spawned has published no frame, _streaming is False again at
\* the moment the error reaches the caller.
C4_TimeoutRollsBackToIdle ==
  [][\A t \in Callers :
       (/\ meth[t] = "start" /\ pc[t] = "ew_clear" /\ pc'[t] # "ew_clear"
        /\ ~waitRes[t]
        /\ spawnedBy[t] # 0 /\ wframe[spawnedBy[t]] = 0)
         => ~streaming']_vars

\* C5 (SpecLive): with a worker that keeps publishing, a client that has
\* begun to wait eventually returns from a wait woken by a set() for a frame
\* published after it began, whatever the other client does meanwhile.
C5_NoLostWakeup ==
  \A t \in Callers :
    (mon[t] = "wait" /\ AliveWorkers # {}) ~> (mon[t] = "off")

\* Client t has just been woken by such a set() while the other client is
\* blocked in a wait of its own.
C5_Witness ==
  \E t \in Callers : \E u \in Other(t) :
    /\ meth[t] = "get" /\ pc[t] = "ew_clear" /\ waitRes[t] /\ mon[t] = "off"
    /\ meth[u] = "get" /\ pc[u] = "ew_wait" /\ mon[u] \in {"wait", "pub"}
    /\ frame = MaxFrames

\* C6 (Spec): a start_streaming() that spawned the worker does not run into
\* the first-frame timeout once that worker has published a frame and its
\* set() has returned.
C6_FirstFrameEndsWait ==
  [][\A t \in Callers :
       (/\ meth[t] = "start" /\ pc[t] = "ew_wait" /\ pc'[t] = "ew_clear"
        /\ ~waitRes'[t]
        /\ spawnedBy[t] # 0)
         => ~(/\ wframe[spawnedBy[t]] > 0
              /\ wpc[spawnedBy[t]] \notin {"set_lock", "set"})]_vars

\* C7 (Spec): a start_streaming() that follows the client's own
\* stop_streaming() and spawned a new worker, every earlier worker being
\* dead and none spawned since, returns successfully only after that worker
\* has published a frame.
C7_RestartWaitsForFreshFrame ==
  [][\A t \in Callers :
       (/\ meth[t] = "start" /\ pc[t] = "ew_clear" /\ pc'[t] = "idle"
        /\ waitRes[t]
        /\ afterStop[t] /\ spawnedBy[t] # 0
        /\ \A w \in Workers :
             /\ w < spawnedBy[t] => wpc[w] = "dead"
             /\ w > spawnedBy[t] => wpc[w] = "unborn")
         => wframe[spawnedBy[t]] > 0]_vars

C9_FrameNeverNone ==
  \A t \in Callers :
    /\ (meth[t] = "get" /\ result[t] = "ok") => got[t] # 0
    /\ (meth[t] = "start" /\ result[t] = "ok") => frame # 0
    /\ (meth[t] = "get" /\ PastWait(t)) => frame # 0

\* start_streaming() has returned to the controller and get_frame() has
\* returned a frame to the viewer.
C9_Witness ==
  /\ meth[Controller] = "start" /\ result[Controller] = "ok"
  /\ \E t \in Other(Controller) :
       meth[t] = "get" /\ result[t] = "ok" /\ got[t] # 0

\* C10 (SpecView): a get_frame() invoked after the set() for frame F has
\* returned returns F or a frame published later.
C10_AtLeastAsRecentAsNotified ==
  \A t \in Callers :
    (meth[t] = "get" /\ result[t] = "ok") => got[t] >= floor[t]

\* get_frame() was invoked after frame 1 had been notified and returned a
\* later frame.
C10_Witness ==
  \E t \in Callers :
    /\ meth[t] = "get" /\ result[t] = "ok"
    /\ floor[t] >= 1 /\ got[t] > floor[t]

\* C11 (SpecReaders): while a worker keeps publishing, every get_frame() of
\* every consumer returns, and the frames one consumer reads one after the
\* other never go back in publication order.
C11_ReadsCompleteInOrder ==
  /\ \A t \in Callers :
       (meth[t] = "get" /\ pc[t] # "idle" /\ AliveWorkers # {})
         ~> (meth[t] = "get" /\ pc[t] = "idle")
  /\ [][\A t \in Callers :
          (pc[t] = "gf_read" /\ pc'[t] = "idle")
            => got'[t] >= prevGot[t]]_vars

\* Consumer t, which has read a frame before, is about to read a later one,
\* and the other consumer has read a frame too.
C11_Witness ==
  \E t \in Callers : \E u \in Other(t) :
    /\ meth[t] = "get" /\ pc[t] = "gf_read"
    /\ prevGot[t] >= 1 /\ frame > prevGot[t]
    /\ prevGot[u] >= 1

\* Client t's event.wait() returns (True or False) in this step.
WaitReturns(t) == pc[t] = "ew_wait" /\ pc'[t] = "ew_clear"

\* C12 (SpecEvent): the event.wait() of a client returns True only if a
\* set() has reached the client's latch since the client's previous
\* event.wait() returned: one set() is never consumed twice.
C12_NoRefire ==
  [][\A t \in Callers :
       (WaitReturns(t) /\ waitRes'[t]) => fresh[t] = "yes"]_vars

\* A client that called get_frame() after a frame was published is blocked
\* in its wait: the latch is clear and no set() has reached it since.
C12_Witness ==
  \E t \in Callers :
    /\ meth[t] = "get" /\ floor[t] >= 1
    /\ pc[t] = "ew_wait" /\ latch[t] = "clear" /\ fresh[t] = "no"

\* C13 (SpecEvent): when a set() has reached a client's latch since the
\* client's previous event.wait() returned, the client's next wait finds the
\* latch set.
C13_SetNeverErased ==
  \A t \in Callers :
    (pc[t] = "ew_wait" /\ fresh[t] = "yes") => latch[t] = "set"

\* C14 (SpecEvent): a step of client t inside CameraEvent.wait (register,
\* wake, time out, clear) leaves every other client's latch as it was.
C14_OwnLatchOnly ==
  [][\A t \in Callers :
       (pc[t] \in {"ew_reg", "ew_wait", "ew_clear"} /\ pc'[t] # pc[t])
         => \A u \in Other(t) : latch'[u] = latch[u]]_vars

\* Client t has just cleared its latch while the latch of the other client,
\* which is not waiting, is still set.
C14_Witness ==
  \E t \in Callers : \E u \in Other(t) :
    /\ pc[t] = "gf_lock" /\ latch[t] = "clear"
    /\ pc[u] = "idle" /\ latch[u] = "set"

\* C15 (SpecEvent): the step that ends CameraEvent.set() sets every
\* registered latch, so every client blocked in event.wait() can return True
\* and none can time out; and that step never waits for a client.
C15_SetArmsAll ==
  /\ [][\A w \in Workers :
          (wpc[w] = "set" /\ wpc'[w] # "set")
            => \A t \in Callers :
                 /\ latch[t] # "none" => latch'[t] = "set"
                 /\ pc[t] = "ew_wait" => latch'[t] = "set"]_vars
  /\ [](\A w \in Workers : wpc[w] = "set" => ENABLED WSet(w))

\* Both clients are blocked in event.wait() with their latches set by the
\* same set().
C15_Witness ==
  /\ \A t \in Callers : pc[t] = "ew_wait" /\ latch[t] = "set"
  /\ \E w \in Workers : wpc[w] = "capture" /\ wframe[w] >= 1

\* C16 (SpecStart): a worker whose frame source has raised clears _streaming
\* and ends: it writes no further frame, never runs again, and creates or
\* starts no thread.
C16_FailStop ==
  [][\A w \in Workers :
       /\ wpc[w] = "exc_crit" => wpc'[w] \in {"exc_crit", "dead"}
       /\ wpc[w] = "dead" => wpc'[w] = "dead"
       /\ wpc[w] \in {"exc_crit", "dead"} => wframe'[w] = wframe[w]
       /\ (wpc[w] = "exc_crit" /\ wpc'[w] = "dead")
            => /\ ~streaming' /\ thread' = thread /\ frame' = frame
               /\ \A v \in Workers \ {w} : wpc'[v] = wpc[v]]_vars

\* No stop_streaming() is ever called, and the latest worker is dead with the
\* flag cleared: its source raised.
C16_Witness ==
  \E w \in Workers : thread = w /\ wpc[w] = "dead" /\ ~streaming

\* C17 (SpecStart): a worker whose frame source is exhausted while streaming
\* ends without writing _streaming, _thread or _frame; the flag keeps its
\* value.
C17_ExhaustionKeepsFlag ==
  [][\A w \in Workers :
       /\ (wpc[w] = "capture" /\ wpc'[w] = "fin" /\ streaming)
            => (streaming' /\ thread' = thread /\ frame' = frame)
       /\ wpc[w] = "fin"
            => /\ wpc'[w] \in {"fin", "dead"}
               /\ wpc'[w] = "dead"
                    => (streaming' = streaming /\ thread' = thread
                        /\ frame' = frame)]_vars

\* No stop_streaming() is ever called, and the latest worker is dead after
\* publishing, with the flag still set: its source ran out.
C17_Witness ==
  \E w \in Workers :
    thread = w /\ wpc[w] = "dead" /\ streaming /\ wframe[w] >= 1

\* C18 (SpecView): with one thread making the start_streaming() and
\* stop_streaming() calls, stop_streaming() never raises, _thread is None
\* and _streaming is False when it returns, and a stop_streaming() on an idle
\* camera without a thread returns without joining and changes nothing.
C18_StopEndsIdle ==
  [][\A t \in Callers :
       meth[t] = "stop" =>
         /\ (pc[t] \in {"st_check", "st_join", "st_wait"} /\ pc'[t] = "idle")
              => (result'[t] = "ok" /\ thread' = 0 /\ ~streaming')
         /\ (/\ pc[t] \in {"st_crit", "st_check"} /\ pc'[t] # pc[t]
             /\ ~streaming /\ thread = 0)
              => /\ pc'[t] \in {"st_check", "idle"}
                 /\ ~streaming' /\ thread' = 0 /\ frame' = frame
                 /\ wpc' = wpc]_vars

\* stop_streaming() has returned on a camera that was never started.
C18_Witness ==
  /\ meth[Controller] = "stop" /\ pc[Controller] = "idle"
  /\ result[Controller] = "ok"
  /\ \A w \in Workers : wpc[w] = "unborn"

\* C19 (SpecNew): for each class at most one object is ever constructed, and
\* all construction calls of the class, by whichever client, return that
\* one object.
C19_OneInstancePerClass ==
  \A c \in Classes :
    /\ inits[c] <= 1
    /\ \A t \in Callers : ref[t][c] \in {0, instances[c]}

\* Both clients have constructed both classes: each got an object of each
\* class, and one object per class was constructed.
C19_Witness ==
  /\ \A c \in Classes : inits[c] = 1
  /\ \A t \in Callers : \A c \in Classes : ref[t][c] = 1

\* C20 (SpecPicture): a take_picture() that found the camera streaming
\* captures the still while no worker is alive, and when it ends _streaming
\* is True and exactly one worker is alive.
C20_PictureResumes ==
  \A t \in Callers :
    wasStreaming[t] =>
      /\ pc[t] = "tp_capture" => AliveWorkers = {}
      /\ pc[t] \in {"tp_ret", "tp_exc"}
           => (streaming /\ Cardinality(AliveWorkers) = 1)

\* take_picture() is about to return after pausing and resuming the stream:
\* the first worker is dead and the new one is publishing.
C20_Witness ==
  \E t \in Callers : \E w \in Workers :
    /\ pc[t] = "tp_ret" /\ wasStreaming[t] /\ result[t] = "ok"
    /\ thread = w /\ wframe[w] >= 1
    /\ \E v \in Workers : wpc[v] = "dead"

\* C22 (SpecStatus): when the current worker has ended because its frame
\* source raised, and no toggle_camera request is in progress, a
\* /camera_status request reports streaming false.
C22_StatusShowsFailure ==
  [][\A t \in Callers \ {Controller} :
       (/\ resp'[t] # resp[t]
        /\ pc[Controller] = "idle"
        /\ failed >= 1 /\ thread = failed)
         => resp'[t] = "off"]_vars

\* C21 (Spec): whatever start_streaming() and stop_streaming() calls of the
\* two clients interleave, at most one worker thread is alive at any time.
C21_AtMostOneWorker == Cardinality(AliveWorkers) <= 1

\* C23 (SpecView): a thread that holds self._lock is inside one of the
\* with self._lock blocks, holds no CameraEvent.lock, and can always take
\* the step that leaves the block; a thread that holds CameraEvent.lock is
\* inside CameraEvent.wait's registration or CameraEvent.set and holds no
\* self._lock; no thread holds self._lock while it waits for a latch or
\* joins a thread. So a worker waiting for self._lock to publish is never
\* blocked by a start_streaming() waiting for the first frame.
C23_LocksNeverNested ==
  /\ \A t \in Callers :
       /\ lock = C(t)
            => /\ pc[t] \in {"ss_crit", "ss_spawn", "st_crit", "gf_read"}
               /\ evLock # C(t)
               /\ ENABLED (SsCrit(t) \/ SsSpawn(t) \/ StCrit(t) \/ GfRead(t))
       /\ evLock = C(t) => (pc[t] = "ew_reg" /\ ENABLED EwReg(t))
       /\ pc[t] \in {"ew_lock", "ew_wait", "ew_clear", "st_join", "st_wait"}
            => lock # C(t)
  /\ \A w \in Workers :
       /\ lock = W(w)
            => /\ wpc[w] \in {"crit", "exc_crit"}
               /\ evLock # W(w)
               /\ ENABLED (WCrit(w) \/ WExc(w))
       /\ evLock = W(w) => (wpc[w] = "set" /\ ENABLED WSet(w))

\* start_streaming() is waiting for the first frame while the worker it
\* spawned holds self._lock to publish that frame and the viewer holds
\* CameraEvent.lock to register its latch.
C23_Witness ==
  \E w \in Workers : \E u \in Other(Controller) :
    /\ meth[Controller] = "start" /\ pc[Controller] = "ew_wait"
    /\ latch[Controller] = "clear" /\ spawnedBy[Controller] = w
    /\ wpc[w] = "crit" /\ lock = W(w) /\ frame = 0
    /\ pc[u] = "ew_reg" /\ evLock = C(u)

\* C24 (SpecIdle): a frame is written to the slot only by a worker that
\* holds self._lock and has found _streaming True under it; a worker that
\* tests the flag while it is False leaves its loop without publishing; and
\* while _streaming stays False a worker completes at most one set().
C24_FlagCheckedBeforePublish ==
  /\ [][\A w \in Workers :
          (frame' # frame \/ wframe'[w] # wframe[w])
            => (streaming /\ streaming' /\ \E v \in Workers : lock = W(v))]_vars
  /\ [][\A w \in Workers :
          (wpc[w] \in {"capture", "crit"} /\ wpc'[w] # wpc[w] /\ ~streaming)
            => (wpc'[w] \in {"fin", "exc_crit"} /\ frame' = frame)]_vars
  /\ [](\A w \in Workers : idleSets[w] <= 1)

\* stop_streaming() cleared the flag while the worker was in set(): the
\* worker completed that one set(), then found the flag False and left its
\* loop, and stop_streaming() is joining it.
C24_Witness ==
  \E w \in Workers :
    /\ idleSets[w] = 1 /\ wpc[w] = "fin" /\ ~streaming
    /\ meth[Controller] = "stop" /\ pc[Controller] = "st_wait"
    /\ joinT[Controller] = w

\* C25 (Spec): a stop_streaming() that overlaps other stop_streaming()
\* calls, while no start_streaming() is in progress and none has spawned a
\* worker since this stop cleared the flag, returns without raising, and no
\* worker is alive when it returns.
C25_ConcurrentStopsReturn ==
  [][\A t \in Callers :
       (/\ meth[t] = "stop" /\ pc[t] \in {"st_check", "st_join", "st_wait"}
        /\ pc'[t] = "idle"
        /\ ~stSpawn[t]
        /\ \A u \in Other(t) : meth[u] = "stop")
         => (result'[t] = "ok" /\ AliveWorkers = {})]_vars

\* C26 (SpecCapture): when a take_picture() that found the camera streaming
\* ends, by returning or by an exception, _streaming is True and exactly one
\* worker is alive.
C26_PictureRestoresState ==
  \A t \in Callers :
    (wasStreaming[t] /\ pc[t] \in {"tp_ret", "tp_exc"})
      => (streaming /\ Cardinality(AliveWorkers) = 1)

====
